---------------------------- MODULE Spec2Model ----------------------------
(***************************************************************************)
(* Model of the registration handler (src/form/handler.go, src/main.go).   *)
(*                                                                         *)
(* Strings are TLA+ strings, except where the code looks inside a string:  *)
(* the text of "submit-time" is split on "." and parsed as a decimal, and  *)
(* a subscription identifier is produced by formatting a number.  Those    *)
(* are sequences of one-character strings.                                 *)
(***************************************************************************)
EXTENDS Integers, Sequences, FiniteSets, TLC

VARIABLES
    parentRows,        \* table inschrijving: the committed rows, in insertion order
    teamRows,          \* table team: the committed rows, in insertion order
    nextKey,           \* the next value of inschrijving.id the store generates
    handlerState,      \* "none" before NewHandler, then "ready", "failed" or "crashed"
    subscriptionIDs,   \* handler.subscriptionIDs
    goroutine,         \* per goroutine serving /hook: the frame of its Handle call
    callCount,         \* Handle calls started so far
    loadedIDs,         \* history: subscriptionIDs as NewHandler left it
    issued,            \* history: the results of createSubscriptionID, in order
    beginCalls,        \* history: calls of db.Begin so far
    opened,            \* history: transactions opened so far
    succeeded,         \* history: calls of storeForm that returned nil so far
    probe              \* last application of parseData: input and result

vars ==
    <<parentRows, teamRows, nextKey, handlerState, subscriptionIDs, goroutine,
      callCount, loadedIDs, issued, beginCalls, opened, succeeded, probe>>

systemVars ==
    <<parentRows, teamRows, nextKey, handlerState, subscriptionIDs, goroutine,
      callCount, loadedIDs, issued, beginCalls, opened, succeeded>>

-----------------------------------------------------------------------------
(* Bounds of the model *)

MaxBadContacts == 2     \* contact fields of one payload that are empty or absent
MaxFilledSlots == 2     \* team slots of one payload that carry any key
MaxCalls == 2           \* Handle calls in one run
MaxGoroutines == 2      \* goroutines serving /hook
MaxSeedRows == 1        \* rows of inschrijving when the process starts

-----------------------------------------------------------------------------
(* language, handler.go:37-42 *)

nl == "NL"
en == "EN"

(* handler.go:201, the number of team slots read: for i := 0; i < 5; i++ *)
NumTeamSlots == 5

Unknown == "Onbekend, check registration-handler"

-----------------------------------------------------------------------------
(* Errors.  nil is Nil; every other error carries its text in two parts.   *)

Nil == [kind |-> "nil", detail |-> ""]
MissingValue(key) == [kind |-> "Missing required value", detail |-> key]
UnknownSubmitTime == [kind |-> "Unknown submit time format", detail |-> ""]
NoTeams == [kind |-> "Subscription contains no teams", detail |-> ""]
ErrSyntax == [kind |-> "strconv.ParseInt", detail |-> "invalid syntax"]
ErrRange == [kind |-> "strconv.ParseInt", detail |-> "value out of range"]

-----------------------------------------------------------------------------
(* Characters *)

DigitChars == <<"0", "1", "2", "3", "4", "5", "6", "7", "8", "9">>
IsDigit(c) == \E d \in 1..10 : DigitChars[d] = c
DigitValue(c) == (CHOOSE d \in 1..10 : DigitChars[d] = c) - 1

\* The characters of the submit-time texts the payloads below use.
Chars(s) ==
    CASE s = "" -> <<>>
      [] s = "17" -> <<"1", "7">>
      [] s = "1700000000.25" ->
            <<"1", "7", "0", "0", "0", "0", "0", "0", "0", "0", ".", "2", "5">>
      [] s = "-3.9.1" -> <<"-", "3", ".", "9", ".", "1">>
      [] s = ".5" -> <<".", "5">>
      [] s = "x7" -> <<"x", "7">>
      [] s = "99999999999999999999" -> [i \in 1..20 |-> "9"]

\* strings.Split(s, sep) for a one-character separator: the pieces between
\* the separators, always at least one piece.
SplitNowhere(s, sep) == <<s>>

RECURSIVE Split(_, _)
Split(s, sep) ==
    IF \A i \in 1..Len(s) : s[i] # sep
    THEN <<s>>
    ELSE LET k == CHOOSE i \in 1..Len(s) :
                    s[i] = sep /\ \A j \in 1..(i - 1) : s[j] # sep
         IN <<SubSeq(s, 1, k - 1)>> \o Split(SubSeq(s, k + 1, Len(s)), sep)

RECURSIVE StripZeros(_)
StripZeros(ds) ==
    IF ds # <<>> /\ Head(ds) = "0" THEN StripZeros(Tail(ds)) ELSE ds

RECURSIVE DecimalValue(_)
DecimalValue(ds) ==
    IF ds = <<>> THEN 0
    ELSE 10 * DecimalValue(SubSeq(ds, 1, Len(ds) - 1)) + DigitValue(ds[Len(ds)])

\* 2^63 - 1 and 2^63, the largest magnitudes of a positive and a negative int64
MaxInt64Digits ==
    <<"9", "2", "2", "3", "3", "7", "2", "0", "3", "6", "8", "5", "4", "7", "7",
      "5", "8", "0", "7">>
MinInt64Digits ==
    <<"9", "2", "2", "3", "3", "7", "2", "0", "3", "6", "8", "5", "4", "7", "7",
      "5", "8", "0", "8">>

\* a > b for two digit sequences of the same length
DigitsGreater(a, b) ==
    \E i \in 1..Len(a) :
        /\ DigitValue(a[i]) > DigitValue(b[i])
        /\ \A j \in 1..(i - 1) : a[j] = b[j]

\* strconv.ParseInt(s, 10, 64): an optional sign, then decimal digits only,
\* within the range of int64.
ParseInt(s) ==
    LET signed == s # <<>> /\ Head(s) \in {"+", "-"}
        neg == s # <<>> /\ Head(s) = "-"
        digits == IF signed THEN Tail(s) ELSE s
        mag == StripZeros(digits)
        limit == IF neg THEN MinInt64Digits ELSE MaxInt64Digits
    IN IF digits = <<>> \/ \E i \in 1..Len(digits) : ~IsDigit(digits[i])
       THEN [value |-> 0, err |-> ErrSyntax]
       ELSE IF Len(mag) > Len(limit)
               \/ (Len(mag) = Len(limit) /\ DigitsGreater(mag, limit))
       THEN [value |-> 0, err |-> ErrRange]
       ELSE [value |-> IF neg THEN 0 - DecimalValue(mag) ELSE DecimalValue(mag),
             err |-> Nil]

-----------------------------------------------------------------------------
(* time.Time: the zero value, or time.Unix(sec, 0) *)

ZeroTime == [isZero |-> TRUE, unix |-> 0]
Unix(sec) == [isZero |-> FALSE, unix |-> sec]

-----------------------------------------------------------------------------
(* Payload keys *)

ContactKeys ==
    <<"contact-club", "contact-name", "contact-surname", "contact-email",
      "contact-phone">>

\* fmt.Sprintf("team%d-name", index) and its siblings, for index 0..4
TeamNameKeys == <<"team0-name", "team1-name", "team2-name", "team3-name", "team4-name">>
TeamTypeKeys == <<"team0-type", "team1-type", "team2-type", "team3-type", "team4-type">>
TeamLevelKeys ==
    <<"team0-level", "team1-level", "team2-level", "team3-level", "team4-level">>

\* data[key] of a Go map: the zero value "" when the key is absent
Get(data, key) == IF key \in DOMAIN data THEN data[key] ELSE ""

-----------------------------------------------------------------------------
(* parseTeam, handler.go:214-247 *)

\* handler.go:224-231
TranslateTypeSwapped(type) ==
    CASE type = "Men" -> "Dames"
      [] type = "Women" -> "Heren"
      [] OTHER -> Unknown

TranslateType(type) ==
    CASE type = "Men" -> "Heren"
      [] type = "Women" -> "Dames"
      [] OTHER -> Unknown

\* handler.go:233-242
TranslateLevel(level) ==
    CASE level = "National" -> "Bond 2"
      [] level = "Regional High" -> "Regio 1"
      [] level = "Regional Low" -> "Regio 3-4"
      [] OTHER -> Unknown

\* The result is a pointer: <<>> is nil, <<t>> points to t.
parseTeam(data, language, index) ==
    LET name == Get(data, TeamNameKeys[index + 1])
        type == Get(data, TeamTypeKeys[index + 1])
        level == Get(data, TeamLevelKeys[index + 1])
    IN IF name # ""
       THEN IF language = en
            THEN <<[Name |-> name, Type |-> TranslateType(type),
                    Level |-> TranslateLevel(level)]>>
            ELSE <<[Name |-> name, Type |-> type, Level |-> level]>>
       ELSE <<>>

-----------------------------------------------------------------------------
(* parseData, handler.go:173-212 *)

\* The closure readEntry: it reads nothing once err is set, and then
\* returns the zero value.
readEntryUnchecked(data, key, err) ==
    [value |-> Get(data, key), err |-> err]

readEntryLastError(data, key, err) ==
    LET value == Get(data, key)
    IN [value |-> value,
        err |-> IF value = "" THEN MissingValue(key) ELSE err]

readEntry(data, key, err) ==
    IF err = Nil
    THEN LET value == Get(data, key)
         IN [value |-> value,
             err |-> IF value = "" THEN MissingValue(key) ELSE err]
    ELSE [value |-> "", err |-> err]

\* handler.go:201-205, the teams of slots 0..index-1 in slot order
RECURSIVE CollectTeamsDescending(_, _, _)
CollectTeamsDescending(data, language, index) ==
    IF index = 0 THEN <<>>
    ELSE parseTeam(data, language, index - 1)
            \o CollectTeamsDescending(data, language, index - 1)

RECURSIVE CollectTeams(_, _, _)
CollectTeams(data, language, index) ==
    IF index = 0 THEN <<>>
    ELSE CollectTeams(data, language, index - 1)
            \o parseTeam(data, language, index - 1)

\* handler.go:201-211, from the team loop to the return
FinishParseUnchecked(data, language, parsed, err) ==
    LET teams == CollectTeams(data, language, NumTeamSlots)
    IN [parsed |-> [parsed EXCEPT !.Teams = teams], err |-> err]

FinishParse(data, language, parsed, err) ==
    LET teams == CollectTeams(data, language, NumTeamSlots)
    IN [parsed |-> [parsed EXCEPT !.Teams = teams],
        err |-> IF err = Nil /\ Len(teams) = 0 THEN NoTeams ELSE err]

parseData(data, language) ==
    LET club == readEntry(data, "contact-club", Nil)
        name == readEntry(data, "contact-name", club.err)
        surname == readEntry(data, "contact-surname", name.err)
        email == readEntry(data, "contact-email", surname.err)
        phone == readEntry(data, "contact-phone", email.err)
        parsed == [Club |-> club.value, Name |-> name.value,
                   Surname |-> surname.value, Email |-> email.value,
                   Phone |-> phone.value, SubmitTime |-> ZeroTime,
                   Teams |-> <<>>]
    IN IF phone.err = Nil
       THEN LET submitTime == readEntry(data, "submit-time", phone.err)
                submitTimeParts == Split(Chars(submitTime.value), ".")
                \* handler.go:195 assigns err again whatever it held; with no
                \* part to index the code panics, which Split never allows
                submitTimeUnix == ParseInt(submitTimeParts[1])
            IN IF submitTimeUnix.err # Nil
               THEN [parsed |-> parsed, err |-> submitTimeUnix.err]
               ELSE FinishParse(data, language,
                        [parsed EXCEPT !.SubmitTime = Unix(submitTimeUnix.value)],
                        submitTimeUnix.err)
       ELSE FinishParse(data, language, parsed, phone.err)

-----------------------------------------------------------------------------
(* Payloads: the inputs of parseData *)

ContactValues == <<"SBC2000", "Jan", "Jansen", "jan@example.org", "0612345678">>

SubmitTimeAbsent == "<absent>"
SubmitTimeTexts ==
    {"", "17", "1700000000.25", "-3.9.1", ".5", "x7", "99999999999999999999"}

\* What one team slot of a payload may hold; keys names the keys present.
TeamChoices ==
    << [name |-> "U16", type |-> "Men", level |-> "National",
        keys |-> {"name", "type", "level"}],
       [name |-> "U18", type |-> "Women", level |-> "Regional High",
        keys |-> {"name", "type", "level"}],
       [name |-> "H1", type |-> "Heren", level |-> "Regional Low",
        keys |-> {"name", "type", "level"}],
       [name |-> "D2", type |-> "", level |-> "Bond 2", keys |-> {"name", "level"}],
       [name |-> "", type |-> "Men", level |-> "National",
        keys |-> {"name", "type", "level"}] >>

IndexOf(seq, x) == CHOOSE i \in 1..Len(seq) : seq[i] = x
InSeq(seq, x) == \E i \in 1..Len(seq) : seq[i] = x

\* The payload whose contact fields bad are empty (mode "empty") or absent
\* (mode "absent"), whose submit-time is time, and whose team slot i holds
\* TeamChoices[slots[i]] (0: none of its keys).
MakePayload(bad, mode, time, slots) ==
    LET contactKeys == {ContactKeys[i] : i \in {j \in 1..5 : j \notin bad \/ mode = "empty"}}
        timeKeys == IF time = SubmitTimeAbsent THEN {} ELSE {"submit-time"}
        has(i, part) == slots[i] # 0 /\ part \in TeamChoices[slots[i]].keys
        teamKeys ==
            {TeamNameKeys[i + 1] : i \in {j \in 0..(NumTeamSlots - 1) : has(j, "name")}}
            \cup {TeamTypeKeys[i + 1] : i \in {j \in 0..(NumTeamSlots - 1) : has(j, "type")}}
            \cup {TeamLevelKeys[i + 1] : i \in {j \in 0..(NumTeamSlots - 1) : has(j, "level")}}
    IN [k \in contactKeys \cup timeKeys \cup teamKeys |->
          IF InSeq(ContactKeys, k)
          THEN IF IndexOf(ContactKeys, k) \in bad THEN "" ELSE ContactValues[IndexOf(ContactKeys, k)]
          ELSE IF k = "submit-time" THEN time
          ELSE IF InSeq(TeamNameKeys, k) THEN TeamChoices[slots[IndexOf(TeamNameKeys, k) - 1]].name
          ELSE IF InSeq(TeamTypeKeys, k) THEN TeamChoices[slots[IndexOf(TeamTypeKeys, k) - 1]].type
          ELSE TeamChoices[slots[IndexOf(TeamLevelKeys, k) - 1]].level]

SlotAssignments ==
    {s \in [0..(NumTeamSlots - 1) -> 0..Len(TeamChoices)] :
        Cardinality({i \in DOMAIN s : s[i] # 0}) <= MaxFilledSlots}

-----------------------------------------------------------------------------
(* fmt.Sprintf("%06d", h.rng.Int() % 1000000), handler.go:165 *)

IDModulus == 1000000
IDWidth == 6

RECURSIVE Decimal(_)
Decimal(n) ==
    IF n < 10 THEN <<DigitChars[n + 1]>>
    ELSE Decimal(n \div 10) \o <<DigitChars[(n % 10) + 1]>>

RECURSIVE PadZeros(_, _)
PadZeros(ds, width) ==
    IF Len(ds) >= width THEN ds ELSE PadZeros(<<"0">> \o ds, width)

NewIDOf(r) == PadZeros(Decimal(r % IDModulus), IDWidth)

\* The values h.rng.Int() is drawn from: non-negative, some below the
\* modulus and some above it, more distinct identifiers than the calls of
\* one run can use up.
NumIDs == MaxCalls + MaxSeedRows + 1

RngInts ==
    {k * 199999 + w * IDModulus : k \in 0..(NumIDs - 1), w \in 0..1}

\* The identifiers createSubscriptionID can produce
IDSpace == {NewIDOf(r) : r \in RngInts}

-----------------------------------------------------------------------------
(* The store: what the process finds in it when it starts *)

SeedIDs == [i \in 1..NumIDs |-> NewIDOf((i - 1) * 199999)]

SeedParent(i) ==
    [id |-> i, inschrijfnummer |-> SeedIDs[i], voornaam |-> "Piet",
     achternaam |-> "Pieters", email |-> "piet@example.org",
     telefoon |-> "0101234567", vereniging |-> "Oud", taal |-> nl,
     inschrijfdatum |-> Unix(1), call |-> 0]

SeedTeam(i) ==
    [inschrijvingsid |-> i, teamnaam |-> "Oud 1", type |-> "Heren",
     niveau |-> "Regio 1", call |-> 0]

-----------------------------------------------------------------------------
(* Messages, handler.go:16-19 *)

OneTeam == [i \in 0..(NumTeamSlots - 1) |-> IF i = 0 THEN 1 ELSE 0]
TwoTeams == [i \in 0..(NumTeamSlots - 1) |-> IF i = 1 THEN 3 ELSE IF i = 3 THEN 2 ELSE 0]
NoTeam == [i \in 0..(NumTeamSlots - 1) |-> IF i = 2 THEN 5 ELSE 0]

NL == "Inschrijven teams"
EN == "Sign up teams"
Other == "Unknown Form"

Message(title, data) == [Title |-> title, Data |-> data]

\* The messages Handle is called with: under each recognized title one that
\* parses and one for each way of failing to, and under another title
\* payloads of either sort.
Messages ==
    { Message(NL, MakePayload({}, "absent", "1700000000.25", TwoTeams)),
      Message(EN, MakePayload({}, "absent", "17", OneTeam)),
      Message(NL, MakePayload({3}, "absent", "17", OneTeam)),
      Message(EN, MakePayload({5}, "empty", "17", OneTeam)),
      Message(NL, MakePayload({}, "absent", "x7", OneTeam)),
      Message(EN, MakePayload({}, "absent", SubmitTimeAbsent, OneTeam)),
      Message(NL, MakePayload({}, "absent", "17", NoTeam)),
      Message(EN, MakePayload({}, "absent", "17", NoTeam)),
      Message(Other, MakePayload({}, "absent", "17", OneTeam)),
      Message(Other, MakePayload({1, 2}, "absent", SubmitTimeAbsent, NoTeam)) }

-----------------------------------------------------------------------------
(* State *)

Goroutines == 1..MaxGoroutines

NoTx == [state |-> "none", aborted |-> FALSE, parentRows |-> <<>>, teamRows |-> <<>>]

NoForm == [Club |-> "", Name |-> "", Surname |-> "", Email |-> "", Phone |-> "",
           SubmitTime |-> ZeroTime, Teams |-> <<>>]

NoID == <<>>

\* No request: the fields of *http.Request the /hook function reads
NoRequest == [method |-> "", secret |-> "", test |-> "", body |-> <<>>]

\* No response written yet
NoStatus == 0

\* A goroutine that serves no request
Idle ==
    [pc |-> "idle", request |-> NoRequest, status |-> NoStatus,
     call |-> 0, message |-> [Title |-> "", Data |-> <<>>],
     lang |-> "", form |-> NoForm, err |-> Nil, tx |-> NoTx, newID |-> NoID,
     subscriptionID |-> NoID, lastInsertID |-> 0,
     \* history: the storage step that failed first, and the turns of the
     \* loop of createSubscriptionID that found their identifier taken
     \* (counted up to 2)
     failedStep |-> "none", collisions |-> 0]

\* parseData applied to nothing yet
NoProbe == [applied |-> FALSE, data |-> <<>>, language |-> nl,
            parsed |-> <<>>, err |-> Nil]

\* The process starts on a store that holds n rows of earlier seasons
InitSystem(n) ==
    /\ parentRows = [i \in 1..n |-> SeedParent(i)]
    /\ teamRows = [i \in 1..n |-> SeedTeam(i)]
    /\ nextKey = n + 1
    /\ handlerState = "none"
    /\ subscriptionIDs = {}
    /\ goroutine = [p \in Goroutines |-> Idle]
    /\ callCount = 0
    /\ loadedIDs = {}
    /\ issued = <<>>
    /\ beginCalls = 0
    /\ opened = 0
    /\ succeeded = 0

-----------------------------------------------------------------------------
(* NewHandler, handler.go:56-80; main exits when it returns an error
   (main.go:30-34).  The query may fail; each rows.Scan may fail; rows.Next
   may return false before the last row because the iteration failed, which
   only rows.Err would tell and the code does not ask. *)

IDsOfRows(rows, n) == {rows[i].inschrijfnummer : i \in 1..n}

NewHandler ==
    /\ handlerState = "none"
    /\ \E outcome \in {"complete", "queryError", "scanError", "nextError"},
          n \in 0..Len(parentRows) :
        \* n rows were scanned before the loop ended
        /\ outcome = "complete" => n = Len(parentRows)
        /\ outcome \in {"scanError", "nextError"} => n < Len(parentRows)
        /\ outcome = "queryError" => n = 0
        /\ IF outcome \in {"queryError", "scanError"}
           THEN /\ handlerState' = "failed"
                /\ UNCHANGED <<subscriptionIDs, loadedIDs>>
           ELSE /\ handlerState' = "ready"
                /\ subscriptionIDs' = IDsOfRows(parentRows, n)
                /\ loadedIDs' = IDsOfRows(parentRows, n)
    /\ UNCHANGED <<parentRows, teamRows, nextKey, goroutine, callCount, issued,
                   beginCalls, opened, succeeded, probe>>

-----------------------------------------------------------------------------
(* Handle, handler.go:82-103 *)

NoLanguage == ""

TitleLanguageDefaultNL(title) ==
    CASE title = "Inschrijven teams" -> nl
      [] title = "Sign up teams" -> en
      [] OTHER -> nl

TitleLanguage(title) ==
    CASE title = "Inschrijven teams" -> nl
      [] title = "Sign up teams" -> en
      [] OTHER -> NoLanguage

\* The frame of a call of Handle with message, up to the call of storeForm
EnterHandle(call, message) ==
    LET lang == TitleLanguage(message.Title)
        r == parseData(message.Data, lang)
        frame == [Idle EXCEPT !.call = call, !.message = message, !.lang = lang]
    IN IF lang = NoLanguage
       THEN [frame EXCEPT !.pc = "returned"]
       ELSE IF r.err # Nil
       THEN [frame EXCEPT !.pc = "returned", !.err = r.err]
       ELSE [frame EXCEPT !.pc = "begin", !.form = r.parsed]

Handle(p) ==
    /\ handlerState = "ready"
    /\ goroutine[p].pc = "idle"
    /\ callCount < MaxCalls
    /\ \E message \in Messages :
        goroutine' = [goroutine EXCEPT ![p] = EnterHandle(callCount + 1, message)]
    /\ callCount' = callCount + 1
    /\ UNCHANGED <<parentRows, teamRows, nextKey, handlerState, subscriptionIDs,
                   loadedIDs, issued, beginCalls, opened, succeeded, probe>>

\* main.go:92-99, the response is written and the goroutine ends
Respond(p) ==
    /\ goroutine[p].pc = "returned"
    /\ goroutine' = [goroutine EXCEPT ![p] = Idle]
    /\ UNCHANGED <<parentRows, teamRows, nextKey, handlerState, subscriptionIDs,
                   callCount, loadedIDs, issued, beginCalls, opened, succeeded,
                   probe>>

-----------------------------------------------------------------------------
(* storeForm, handler.go:105-160 *)

StorageError(step) == [kind |-> "storage", detail |-> step]

\* handler.go:111-115, the deferred function, and the return
ReturnFromStoreForm(frame, err) ==
    [frame EXCEPT !.pc = "returned", !.err = err,
                  !.tx = IF err # Nil /\ frame.tx.state = "open"
                         THEN [NoTx EXCEPT !.state = "rolledback"]
                         ELSE @]

\* handler.go:107-109
Begin(p) ==
    /\ goroutine[p].pc = "begin"
    /\ \E ok \in BOOLEAN :
        /\ goroutine' = [goroutine EXCEPT ![p] =
            IF ok
            THEN [@ EXCEPT !.pc = "createID", !.tx = [NoTx EXCEPT !.state = "open"]]
            ELSE ReturnFromStoreForm([@ EXCEPT !.failedStep = "begin"],
                                     StorageError("begin"))]
        /\ opened' = IF ok THEN opened + 1 ELSE opened
    /\ beginCalls' = beginCalls + 1
    /\ UNCHANGED <<parentRows, teamRows, nextKey, handlerState, subscriptionIDs,
                   callCount, loadedIDs, issued, succeeded, probe>>

\* handler.go:166, the lookup in the map
ExistsNever(ids, newID) == FALSE

Exists(ids, newID) == newID \in ids

\* handler.go:165-166, one turn of the loop of createSubscriptionID: draw,
\* format, look the identifier up

DrawID(p) ==
    /\ goroutine[p].pc = "createID"
    /\ \E r \in RngInts :
        goroutine' = [goroutine EXCEPT ![p] =
            IF Exists(subscriptionIDs, NewIDOf(r))
            THEN [@ EXCEPT !.newID = NewIDOf(r),
                           !.collisions = IF @ < 2 THEN @ + 1 ELSE @]
            ELSE [@ EXCEPT !.newID = NewIDOf(r), !.pc = "storeID"]]
    /\ UNCHANGED <<parentRows, teamRows, nextKey, handlerState, subscriptionIDs,
                   callCount, loadedIDs, issued, beginCalls, opened, succeeded,
                   probe>>

\* handler.go:167
AddIDForgotten(ids, newID) == ids

AddID(ids, newID) == ids \cup {newID}

\* handler.go:167-168 and 117
StoreID(p) ==
    /\ goroutine[p].pc = "storeID"
    /\ subscriptionIDs' = AddID(subscriptionIDs, goroutine[p].newID)
    /\ issued' = Append(issued, goroutine[p].newID)
    /\ goroutine' = [goroutine EXCEPT ![p] =
            [@ EXCEPT !.subscriptionID = goroutine[p].newID, !.pc = "insertParent"]]
    /\ UNCHANGED <<parentRows, teamRows, nextKey, handlerState, callCount,
                   loadedIDs, beginCalls, opened, succeeded, probe>>

ParentRow(key, frame) ==
    [id |-> key, inschrijfnummer |-> frame.subscriptionID,
     voornaam |-> frame.form.Name, achternaam |-> frame.form.Surname,
     email |-> frame.form.Email, telefoon |-> frame.form.Phone,
     vereniging |-> frame.form.Club, taal |-> frame.lang,
     inschrijfdatum |-> frame.form.SubmitTime, call |-> frame.call]

\* handler.go:123-139: INSERT ... RETURNING id, scanned into lastInsertID.
\* The error of Scan is dropped: when the insert fails, or returns no row,
\* lastInsertID keeps 0 and storeForm goes on.  Whether the failure leaves
\* the transaction aborted is the store's choice.
InsertParent(p) ==
    /\ goroutine[p].pc = "insertParent"
    /\ \E ok \in BOOLEAN, aborted \in BOOLEAN :
        /\ ok => ~aborted
        /\ goroutine' = [goroutine EXCEPT ![p] =
            IF ok
            THEN [@ EXCEPT !.pc = "insertTeams", !.lastInsertID = nextKey,
                           !.tx.parentRows = <<ParentRow(nextKey, goroutine[p])>>]
            ELSE [@ EXCEPT !.pc = "insertTeams", !.tx.aborted = aborted,
                           !.failedStep = "insertParent"]]
        /\ nextKey' = IF ok THEN nextKey + 1 ELSE nextKey
    /\ UNCHANGED <<parentRows, teamRows, handlerState, subscriptionIDs,
                   callCount, loadedIDs, issued, beginCalls, opened, succeeded,
                   probe>>

\* handler.go:141-147, one (?, ?, ?, ?) per team
TeamRowsOf(frame) ==
    [i \in 1..Len(frame.form.Teams) |->
        [inschrijvingsid |-> frame.lastInsertID,
         teamnaam |-> frame.form.Teams[i].Name,
         type |-> frame.form.Teams[i].Type,
         niveau |-> frame.form.Teams[i].Level,
         call |-> frame.call]]

\* handler.go:149-155; in an aborted transaction every statement fails
InsertTeams(p) ==
    /\ goroutine[p].pc = "insertTeams"
    /\ \E ok \in BOOLEAN :
        /\ goroutine[p].tx.aborted => ~ok
        /\ goroutine' = [goroutine EXCEPT ![p] =
            IF ok
            THEN [@ EXCEPT !.pc = "commit", !.tx.teamRows = TeamRowsOf(goroutine[p])]
            ELSE ReturnFromStoreForm(
                    [@ EXCEPT !.failedStep =
                        IF @ = "none" THEN "insertTeams" ELSE @],
                    StorageError("insert team"))]
    /\ UNCHANGED <<parentRows, teamRows, nextKey, handlerState, subscriptionIDs,
                   callCount, loadedIDs, issued, beginCalls, opened, succeeded,
                   probe>>

\* handler.go:157-159
Commit(p) ==
    /\ goroutine[p].pc = "commit"
    /\ \E ok \in BOOLEAN :
        IF ok
        THEN /\ parentRows' = parentRows \o goroutine[p].tx.parentRows
             /\ teamRows' = teamRows \o goroutine[p].tx.teamRows
             /\ succeeded' = succeeded + 1
             /\ goroutine' = [goroutine EXCEPT ![p] =
                    ReturnFromStoreForm([@ EXCEPT !.tx = [NoTx EXCEPT !.state = "committed"]],
                                        Nil)]
        ELSE /\ UNCHANGED <<parentRows, teamRows, succeeded>>
             /\ goroutine' = [goroutine EXCEPT ![p] =
                    ReturnFromStoreForm(
                        [@ EXCEPT !.failedStep =
                            IF @ = "none" THEN "commit" ELSE @],
                        StorageError("commit"))]
    /\ UNCHANGED <<nextKey, handlerState, subscriptionIDs, callCount, loadedIDs,
                   issued, beginCalls, opened, probe>>

-----------------------------------------------------------------------------
(* Specification: the requests to /hook are served one at a time *)

NoCallInFlight == \A q \in Goroutines : goroutine[q].pc = "idle"

HandleSerial(p) == NoCallInFlight /\ Handle(p)

Init == (\E n \in 0..MaxSeedRows : InitSystem(n)) /\ probe = NoProbe

\* One request at a time: which goroutine serves it makes no difference
SerialGoroutines == {1}

Next ==
    \/ NewHandler
    \/ \E p \in SerialGoroutines :
        \/ HandleSerial(p)
        \/ Begin(p)
        \/ DrawID(p)
        \/ StoreID(p)
        \/ InsertParent(p)
        \/ InsertTeams(p)
        \/ Commit(p)
        \/ Respond(p)

Spec == Init /\ [][Next]_vars

-----------------------------------------------------------------------------
(* Specification: the requests to /hook are served as net/http serves them,
   each in a goroutine of its own, with nothing between them and Handle
   (main.go:36, 92; handler.go:162 "not thread-safe") *)

\* handler.go:166-167 on two goroutines at once.  A Go map is not safe for
\* concurrent use: when one goroutine writes subscriptionIDs while another
\* reads or writes it, the runtime may end the process with "concurrent map
\* writes" or "concurrent map read and map write", or may let both go on.
ConcurrentMapAccess(p) ==
    /\ goroutine[p].pc = "storeID"
    /\ \E q \in Goroutines \ {p} : goroutine[q].pc \in {"createID", "storeID"}
    /\ handlerState' = "crashed"
    \* the process is gone, and every goroutine with it
    /\ goroutine' = [q \in Goroutines |-> [goroutine[q] EXCEPT !.pc = "crashed"]]
    /\ UNCHANGED <<parentRows, teamRows, nextKey, subscriptionIDs, callCount,
                   loadedIDs, issued, beginCalls, opened, succeeded, probe>>

NextConcurrent ==
    \/ NewHandler
    \/ \E p \in Goroutines :
        \/ Handle(p)
        \/ Begin(p)
        \/ DrawID(p)
        \/ StoreID(p)
        \/ InsertParent(p)
        \/ InsertTeams(p)
        \/ Commit(p)
        \/ Respond(p)
        \/ ConcurrentMapAccess(p)

SpecConcurrent == Init /\ [][NextConcurrent]_vars

-----------------------------------------------------------------------------
(* Specification: the requests served one at a time, by a scheduler that
   lets a goroutine that can take its next step take it, on a store that
   answers every call, with draws of h.rng.Int() that give infinitely often
   every number that is possible infinitely often.  The store the process
   starts on may hold a row for every identifier there is. *)

InitFair ==
    /\ \E n \in (0..MaxSeedRows) \cup {Cardinality(IDSpace)} : InitSystem(n)
    /\ probe = NoProbe

\* handler.go:165-166, a draw that is not in subscriptionIDs
DrawFresh(p) == DrawID(p) /\ goroutine'[p].pc = "storeID"

Fairness ==
    \A p \in SerialGoroutines :
        /\ WF_vars(Begin(p))
        /\ WF_vars(DrawID(p))
        /\ SF_vars(DrawFresh(p))
        /\ WF_vars(StoreID(p))
        /\ WF_vars(InsertParent(p))
        /\ WF_vars(InsertTeams(p))
        /\ WF_vars(Commit(p))

SpecFair == InitFair /\ [][Next]_vars /\ Fairness

-----------------------------------------------------------------------------
(* The function registered for /hook, main.go:36-101 *)

\* net/http status codes the function answers with
StatusOK == 200
StatusBadRequest == 400
StatusForbidden == 403
StatusMethodNotAllowed == 405
StatusInternalServerError == 500

\* os.Getenv("WEBHOOK_SECRET")
WebhookSecret == "s3cret"

\* A request body: whether ioutil.ReadAll reads it to its end, and what the
\* bytes are: no JSON at all, a JSON object whose "title" is a number, or a
\* JSON object with the fields given.
Body(readable, json, fields) == [readable |-> readable, json |-> json, fields |-> fields]

HookMessages ==
    { Message(NL, MakePayload({}, "absent", "1700000000.25", TwoTeams)),
      Message(EN, MakePayload({5}, "empty", "17", OneTeam)),
      Message(Other, MakePayload({}, "absent", "17", OneTeam)) }

Bodies ==
    { Body(FALSE, "object", <<>>),
      Body(TRUE, "not json", <<>>),
      Body(TRUE, "title is a number", <<>>),
      Body(TRUE, "object", <<>>) }
    \cup { Body(TRUE, "object", [title |-> m.Title, data |-> m.Data]) : m \in HookMessages }

Requests ==
    [method : {"POST", "GET"}, secret : {WebhookSecret, "guess", ""},
     test : {"", "1"}, body : Bodies]

\* json.Unmarshal(buffer, &msg), main.go:63-64: a field the object lacks
\* keeps its zero value (Title "", Data nil)
Unmarshal(body) ==
    IF body.json = "object"
    THEN [msg |-> Message(IF "title" \in DOMAIN body.fields THEN body.fields.title ELSE "",
                          IF "data" \in DOMAIN body.fields THEN body.fields.data ELSE <<>>),
          ok |-> TRUE]
    ELSE [msg |-> Message("", <<>>), ok |-> FALSE]

\* The function has written its response without calling Handle
Answered(request, status) ==
    [Idle EXCEPT !.pc = "answered", !.request = request, !.status = status]

\* main.go:37-92, from the request to its response or to the call of Handle.
\* json.Marshal of a testResponse (main.go:78) cannot fail: it holds a
\* string and a map of strings.
ServeHookSecretUnchecked(request, call) ==
    IF request.method # "POST" THEN Answered(request, StatusMethodNotAllowed)
    ELSE IF ~request.body.readable THEN Answered(request, StatusBadRequest)
    ELSE IF ~Unmarshal(request.body).ok THEN Answered(request, StatusBadRequest)
    ELSE IF request.test # "" THEN Answered(request, StatusOK)
    ELSE [EnterHandle(call, Unmarshal(request.body).msg) EXCEPT !.request = request]

ServeHook(request, call) ==
    IF request.method # "POST" THEN Answered(request, StatusMethodNotAllowed)
    ELSE IF request.secret # WebhookSecret THEN Answered(request, StatusForbidden)
    ELSE IF ~request.body.readable THEN Answered(request, StatusBadRequest)
    ELSE IF ~Unmarshal(request.body).ok THEN Answered(request, StatusBadRequest)
    ELSE IF request.test # "" THEN Answered(request, StatusOK)
    ELSE [EnterHandle(call, Unmarshal(request.body).msg) EXCEPT !.request = request]

\* A request arrives; callCount counts the requests
Hook(p) ==
    /\ handlerState = "ready"
    /\ NoCallInFlight
    /\ callCount < MaxCalls
    /\ \E request \in Requests :
        goroutine' = [goroutine EXCEPT ![p] = ServeHook(request, callCount + 1)]
    /\ callCount' = callCount + 1
    /\ UNCHANGED <<parentRows, teamRows, nextKey, handlerState, subscriptionIDs,
                   loadedIDs, issued, beginCalls, opened, succeeded, probe>>

\* main.go:92-99, Handle has returned
WriteResponse(p) ==
    /\ goroutine[p].pc = "returned"
    /\ goroutine' = [goroutine EXCEPT ![p] =
            [@ EXCEPT !.pc = "answered",
                      !.status = IF goroutine[p].err = Nil
                                 THEN StatusOK ELSE StatusInternalServerError]]
    /\ UNCHANGED <<parentRows, teamRows, nextKey, handlerState, subscriptionIDs,
                   callCount, loadedIDs, issued, beginCalls, opened, succeeded,
                   probe>>

\* The function returns and its goroutine ends
EndRequest(p) ==
    /\ goroutine[p].pc = "answered"
    /\ goroutine' = [goroutine EXCEPT ![p] = Idle]
    /\ UNCHANGED <<parentRows, teamRows, nextKey, handlerState, subscriptionIDs,
                   callCount, loadedIDs, issued, beginCalls, opened, succeeded,
                   probe>>

NextHook ==
    \/ NewHandler
    \/ \E p \in SerialGoroutines :
        \/ Hook(p)
        \/ Begin(p)
        \/ DrawID(p)
        \/ StoreID(p)
        \/ InsertParent(p)
        \/ InsertTeams(p)
        \/ Commit(p)
        \/ WriteResponse(p)
        \/ EndRequest(p)

SpecHook == Init /\ [][NextHook]_vars

-----------------------------------------------------------------------------
(* The specification of parseData alone *)

\* Every payload and language, parseData not yet applied to it
InitParse ==
    /\ InitSystem(0)
    /\ \E bad \in {b \in SUBSET (1..5) : Cardinality(b) <= MaxBadContacts},
          mode \in {"empty", "absent"},
          time \in SubmitTimeTexts \cup {SubmitTimeAbsent},
          slots \in SlotAssignments,
          language \in {nl, en} :
        probe = [applied |-> FALSE, data |-> MakePayload(bad, mode, time, slots),
                 language |-> language, parsed |-> <<>>, err |-> Nil]

ApplyParseData ==
    /\ ~probe.applied
    /\ LET r == parseData(probe.data, probe.language)
       IN probe' = [probe EXCEPT !.applied = TRUE, !.parsed = r.parsed,
                                 !.err = r.err]
    /\ UNCHANGED systemVars

SpecParse == InitParse /\ [][ApplyParseData]_vars

-----------------------------------------------------------------------------
(* Properties of Handle and NewHandler, checked under Spec *)

Returned(p) == goroutine[p].pc = "returned"

Recognized(title) == title \in {"Inschrijven teams", "Sign up teams"}

ParentRowsOfCall(call) ==
    {i \in 1..Len(parentRows) : parentRows[i].call = call}

TeamRowsOfCall(call) ==
    {i \in 1..Len(teamRows) : teamRows[i].call = call}

\* C1: when a storage step of a Handle call fails (db.Begin, the insert into
\* inschrijving, the insert into team, or the commit), Handle returns a
\* non-nil error and the store holds no row of that call.
C1_StorageFailureLeavesNothing ==
    \A p \in Goroutines :
        Returned(p) /\ goroutine[p].failedStep # "none" =>
            /\ goroutine[p].err # Nil
            /\ ParentRowsOfCall(goroutine[p].call) = {}
            /\ TeamRowsOfCall(goroutine[p].call) = {}

\* C2: when Handle returns nil for a message with a recognized title, the
\* store has gained exactly one row of inschrijving, carrying the identifier
\* issued to the call, and one row of team per parsed team, each referring
\* to the generated key of that row of inschrijving.
C2_SuccessWritesLinkedRows ==
    \A p \in Goroutines :
        Returned(p) /\ Recognized(goroutine[p].message.Title)
                    /\ goroutine[p].err = Nil =>
            /\ Cardinality(ParentRowsOfCall(goroutine[p].call)) = 1
            /\ \A i \in ParentRowsOfCall(goroutine[p].call) :
                /\ parentRows[i].inschrijfnummer = goroutine[p].subscriptionID
                /\ \A j \in TeamRowsOfCall(goroutine[p].call) :
                    teamRows[j].inschrijvingsid = parentRows[i].id
            /\ Cardinality(TeamRowsOfCall(goroutine[p].call))
                    = Len(goroutine[p].form.Teams)

\* C3: with the calls of Handle served one at a time, every identifier that
\* createSubscriptionID returns differs from every identifier loaded by
\* NewHandler and from every identifier it returned before.
C3_NoIdentifierIssuedTwice ==
    \A i \in 1..Len(issued) :
        /\ issued[i] \notin loadedIDs
        /\ \A j \in 1..(i - 1) : issued[j] # issued[i]

\* The second identifier of a run has just been returned, after two or more
\* draws that were already taken, to a handler that loaded identifiers.
C3_Witness ==
    \E p \in Goroutines :
        /\ goroutine[p].pc = "insertParent"
        /\ goroutine[p].collisions = 2
        /\ Len(issued) = 2
        /\ goroutine[p].subscriptionID = issued[2]
        /\ loadedIDs # {}

\* C4: a Handle call whose title is neither "Inschrijven teams" nor "Sign up
\* teams" returns nil at once: it calls no db.Begin, opens no transaction,
\* writes no row and leaves subscriptionIDs as it was.
C4_UnknownTitleIgnored ==
    [][\A p \in Goroutines :
        (/\ goroutine[p].pc = "idle"
         /\ goroutine'[p].pc # "idle"
         /\ ~Recognized(goroutine'[p].message.Title)) =>
            /\ goroutine'[p].pc = "returned"
            /\ goroutine'[p].err = Nil
            /\ goroutine'[p].tx = NoTx
            /\ beginCalls' = beginCalls
            /\ parentRows' = parentRows
            /\ teamRows' = teamRows
            /\ subscriptionIDs' = subscriptionIDs]_vars

\* A message with another title has returned whose payload would parse.
C4_Witness ==
    \E p \in Goroutines :
        /\ Returned(p)
        /\ goroutine[p].message.Title = "Unknown Form"
        /\ \A i \in 1..5 : Get(goroutine[p].message.Data, ContactKeys[i]) # ""
        /\ Get(goroutine[p].message.Data, "team0-name") # ""
        /\ Get(goroutine[p].message.Data, "submit-time") = "17"
        /\ subscriptionIDs # {}

\* What makes a payload fail to parse: a contact field missing or empty, a
\* submit-time whose part before the first dot is no decimal int64, or no
\* team slot with a name.
ContactsPresent(data) == \A i \in 1..5 : Get(data, ContactKeys[i]) # ""

SubmitTimeParses(data) ==
    ParseInt(Split(Chars(Get(data, "submit-time")), ".")[1]).err = Nil

NamedSlots(data) ==
    {i \in 0..4 : Get(data, TeamNameKeys[i + 1]) # ""}

FailsParsing(data) ==
    ~ContactsPresent(data) \/ ~SubmitTimeParses(data) \/ NamedSlots(data) = {}

\* C5: a Handle call with a recognized title whose payload fails parsing
\* returns a non-nil error at once: it calls no db.Begin, opens no
\* transaction, writes no row and leaves subscriptionIDs as it was.
C5_ParseFailureTouchesNothing ==
    [][\A p \in Goroutines :
        (/\ goroutine[p].pc = "idle"
         /\ goroutine'[p].pc # "idle"
         /\ Recognized(goroutine'[p].message.Title)
         /\ FailsParsing(goroutine'[p].message.Data)) =>
            /\ goroutine'[p].pc = "returned"
            /\ goroutine'[p].err # Nil
            /\ goroutine'[p].tx = NoTx
            /\ beginCalls' = beginCalls
            /\ parentRows' = parentRows
            /\ teamRows' = teamRows
            /\ subscriptionIDs' = subscriptionIDs]_vars

\* A message with a recognized title and an empty contact field has returned
\* an error, on a handler that holds identifiers.
C5_Witness ==
    \E p \in Goroutines :
        /\ Returned(p)
        /\ goroutine[p].message.Title = "Sign up teams"
        /\ "contact-phone" \in DOMAIN goroutine[p].message.Data
        /\ goroutine[p].message.Data["contact-phone"] = ""
        /\ goroutine[p].err # Nil
        /\ subscriptionIDs # {}

NoCallInStoreForm ==
    \A p \in Goroutines : goroutine[p].pc \in {"idle", "returned"}

\* C6, as claimed: between calls, subscriptionIDs is the identifiers loaded
\* by NewHandler plus exactly one per Handle call that stored its submission
\* and returned nil; a call that returned an error added none.
C6_OneIdentifierPerSuccess ==
    NoCallInStoreForm =>
        /\ loadedIDs \subseteq subscriptionIDs
        /\ Cardinality(subscriptionIDs) = Cardinality(loadedIDs) + succeeded

\* C6, amended: subscriptionIDs is the identifiers loaded by NewHandler plus
\* the identifiers createSubscriptionID returned, which are exactly one per
\* Handle call that opened its transaction, whether the call then returned
\* nil or an error; no identifier is ever removed.
C6_OneIdentifierPerTransaction ==
    /\ subscriptionIDs = loadedIDs \cup {issued[i] : i \in 1..Len(issued)}
    /\ Cardinality(subscriptionIDs) = Cardinality(loadedIDs) + Len(issued)
    /\ Len(issued) = opened
            - Cardinality({p \in Goroutines :
                    goroutine[p].pc \in {"createID", "storeID"}})

\* A call whose insert into team failed has returned its error, and the
\* identifier it was issued is in subscriptionIDs.
C6_Witness ==
    \E p \in Goroutines :
        /\ Returned(p)
        /\ goroutine[p].failedStep = "insertTeams"
        /\ goroutine[p].err # Nil
        /\ goroutine[p].subscriptionID \in subscriptionIDs
        /\ goroutine[p].subscriptionID \notin loadedIDs
        /\ opened = 2

\* C7: a handler that NewHandler returned without error holds every
\* identifier that inschrijving held when the handler was made (the rows of
\* call 0).
C7_HandlerLoadsEveryIdentifier ==
    handlerState = "ready" =>
        \A i \in ParentRowsOfCall(0) : parentRows[i].inschrijfnummer \in loadedIDs

\* C15: while the handler made from the store is the only writer of the
\* store, every inschrijfnummer of a row of inschrijving is in
\* subscriptionIDs, and no two rows of inschrijving carry the same
\* inschrijfnummer.
C15_StoredIdentifiersKnownAndDistinct ==
    handlerState = "ready" =>
        /\ \A i \in 1..Len(parentRows) :
                parentRows[i].inschrijfnummer \in subscriptionIDs
        /\ \A i \in 1..Len(parentRows) : \A j \in 1..Len(parentRows) :
                i # j => parentRows[i].inschrijfnummer # parentRows[j].inschrijfnummer

-----------------------------------------------------------------------------
(* Properties of parseData, checked under SpecParse *)

\* The k-th slot, in ascending order, among the slots that have a name
NamedSlot(data, k) ==
    CHOOSE i \in NamedSlots(data) :
        Cardinality({j \in NamedSlots(data) : j < i}) = k - 1

ContactsCopied(data, parsed) ==
    /\ parsed.Club = data["contact-club"]
    /\ parsed.Name = data["contact-name"]
    /\ parsed.Surname = data["contact-surname"]
    /\ parsed.Email = data["contact-email"]
    /\ parsed.Phone = data["contact-phone"]

TeamsInSlotOrder(data, parsed) ==
    /\ Len(parsed.Teams) = Cardinality(NamedSlots(data))
    /\ \A k \in 1..Len(parsed.Teams) :
        parsed.Teams[k].Name = data[TeamNameKeys[NamedSlot(data, k) + 1]]

\* C8, as claimed: with the five contact fields non-empty and a name in some
\* team slot, parseData succeeds, copies the contact fields, and Teams is
\* the named slots in ascending order, names unchanged.
C8_ValidPayloadParses ==
    probe.applied /\ ContactsPresent(probe.data) /\ NamedSlots(probe.data) # {} =>
        /\ probe.err = Nil
        /\ ContactsCopied(probe.data, probe.parsed)
        /\ TeamsInSlotOrder(probe.data, probe.parsed)

\* C8, amended: the same, for the payloads whose submit-time has a decimal
\* int64 before its first dot.
C8_ValidPayloadWithTimeParses ==
    probe.applied /\ ContactsPresent(probe.data) /\ NamedSlots(probe.data) # {}
                  /\ SubmitTimeParses(probe.data) =>
        /\ probe.err = Nil
        /\ ContactsCopied(probe.data, probe.parsed)
        /\ TeamsInSlotOrder(probe.data, probe.parsed)

\* A payload with two different names, in slots 1 and 4, has been parsed.
C8_Witness ==
    /\ probe.applied
    /\ probe.err = Nil
    /\ NamedSlots(probe.data) = {1, 4}
    /\ Len(probe.parsed.Teams) = 2
    /\ probe.parsed.Teams[1].Name # probe.parsed.Teams[2].Name

Sentinel == "Onbekend, check registration-handler"

DutchType(type) ==
    IF type = "Men" THEN "Heren" ELSE IF type = "Women" THEN "Dames" ELSE Sentinel

DutchLevel(level) ==
    IF level = "National" THEN "Bond 2"
    ELSE IF level = "Regional High" THEN "Regio 1"
    ELSE IF level = "Regional Low" THEN "Regio 3-4"
    ELSE Sentinel

\* C9: every team parsed under English has type and level translated (Men to
\* Heren, Women to Dames, National to Bond 2, Regional High to Regio 1,
\* Regional Low to Regio 3-4, anything else to the sentinel); every team
\* parsed under Dutch has the type and level of the payload.
C9_TeamTranslation ==
    probe.applied =>
        \A k \in 1..Len(probe.parsed.Teams) :
            LET slot == NamedSlot(probe.data, k)
                type == Get(probe.data, TeamTypeKeys[slot + 1])
                level == Get(probe.data, TeamLevelKeys[slot + 1])
            IN IF probe.language = "EN"
               THEN /\ probe.parsed.Teams[k].Type = DutchType(type)
                    /\ probe.parsed.Teams[k].Level = DutchLevel(level)
               ELSE /\ probe.parsed.Teams[k].Type = type
                    /\ probe.parsed.Teams[k].Level = level

\* An English payload has been parsed with a team of every sort: Women at
\* Regional High, and one with no type and a level that is not English.
C9_Witness ==
    /\ probe.applied
    /\ probe.language = "EN"
    /\ \E k \in 1..Len(probe.parsed.Teams) :
        /\ probe.parsed.Teams[k].Type = "Dames"
        /\ probe.parsed.Teams[k].Level = "Regio 1"
    /\ \E k \in 1..Len(probe.parsed.Teams) :
        /\ probe.parsed.Teams[k].Name = "D2"
        /\ probe.parsed.Teams[k].Type = Sentinel
        /\ probe.parsed.Teams[k].Level = Sentinel

\* C10, as claimed: a payload with no name in any team slot fails with
\* "Subscription contains no teams".
C10_NoTeamsError ==
    probe.applied /\ NamedSlots(probe.data) = {} =>
        probe.err = [kind |-> "Subscription contains no teams", detail |-> ""]

\* C10, amended: so it does when its five contact fields are non-empty and
\* its submit-time has a decimal int64 before its first dot; otherwise it
\* fails with the error of the contact field or of the submit-time.
C10_NoTeamsErrorAfterScalars ==
    probe.applied /\ NamedSlots(probe.data) = {} =>
        IF ContactsPresent(probe.data) /\ SubmitTimeParses(probe.data)
        THEN probe.err = [kind |-> "Subscription contains no teams", detail |-> ""]
        ELSE probe.err \notin
                {Nil, [kind |-> "Subscription contains no teams", detail |-> ""]}

\* A payload with valid contact fields and submit-time, and a team slot that
\* has a type and a level but an empty name, has failed for want of teams.
C10_Witness ==
    /\ probe.applied
    /\ ContactsPresent(probe.data)
    /\ SubmitTimeParses(probe.data)
    /\ NamedSlots(probe.data) = {}
    /\ "team3-type" \in DOMAIN probe.data
    /\ probe.err.kind = "Subscription contains no teams"

\* The contact fields of the payload that are missing or empty, by their
\* place in the order club, name, surname, email, phone
MissingContacts(data) == {i \in 1..5 : Get(data, ContactKeys[i]) = ""}

FirstMissingContact(data) ==
    CHOOSE i \in MissingContacts(data) : \A j \in MissingContacts(data) : i <= j

\* C11: a payload with one or more of the five contact fields missing or
\* empty fails with "Missing required value: <key>", <key> the first such
\* field in the order contact-club, contact-name, contact-surname,
\* contact-email, contact-phone, whatever the other fields, the submit-time
\* and the team slots hold.
C11_FirstMissingContactReported ==
    probe.applied /\ MissingContacts(probe.data) # {} =>
        probe.err = [kind |-> "Missing required value",
                     detail |-> ContactKeys[FirstMissingContact(probe.data)]]

\* A payload without surname and phone, with a submit-time that is no
\* number and no team, has failed for want of contact-surname.
C11_Witness ==
    /\ probe.applied
    /\ MissingContacts(probe.data) = {3, 5}
    /\ ~SubmitTimeParses(probe.data)
    /\ NamedSlots(probe.data) = {}
    /\ probe.err.detail = "contact-surname"

\* The characters of submit-time before its first dot, all of them when it
\* has none
TimePrefix(data) ==
    LET text == Chars(Get(data, "submit-time"))
        dots == {i \in 1..Len(text) : text[i] = "."}
    IN IF dots = {} THEN text
       ELSE SubSeq(text, 1, (CHOOSE i \in dots : \A j \in dots : i <= j) - 1)

Unsigned(ds) == IF ds # <<>> /\ ds[1] \in {"+", "-"} THEN Tail(ds) ELSE ds

\* An optional sign, then one or more decimal digits
IsDecimalInteger(ds) ==
    /\ Unsigned(ds) # <<>>
    /\ \A i \in 1..Len(Unsigned(ds)) : Unsigned(ds)[i] \in
            {"0", "1", "2", "3", "4", "5", "6", "7", "8", "9"}

\* -2^63 <= ds <= 2^63 - 1, for a decimal integer ds
FitsInt64(ds) ==
    LET mag == StripZeros(Unsigned(ds))
        limit == IF ds[1] = "-" THEN MinInt64Digits ELSE MaxInt64Digits
    IN \/ Len(mag) < Len(limit)
       \/ Len(mag) = Len(limit) /\ ~DigitsGreater(mag, limit)

IntegerOf(ds) ==
    IF ds[1] = "-" THEN 0 - DecimalValue(Unsigned(ds)) ELSE DecimalValue(Unsigned(ds))

\* parseData used prefix as the epoch seconds, and went on to the teams
TimeTaken(prefix) ==
    /\ probe.err \in {Nil, NoTeams}
    /\ probe.parsed.SubmitTime = [isZero |-> FALSE, unix |-> IntegerOf(prefix)]
    /\ Len(probe.parsed.Teams) = Cardinality(NamedSlots(probe.data))

\* parseData failed on submit-time, and returned with no team collected
TimeRefused ==
    /\ probe.err \notin {Nil, NoTeams}
    /\ probe.err.kind # "Missing required value"
            \/ probe.err.detail = "submit-time"
    /\ probe.parsed.Teams = <<>>

\* C14, as claimed: with the five contact fields non-empty, the part of
\* submit-time before its first dot is taken as the epoch seconds whenever
\* it is a decimal integer, whatever follows the dot; when submit-time is
\* missing or empty or that part is no decimal integer, parseData fails and
\* returns before it collects a team.
C14_SubmitTimePrefix ==
    probe.applied /\ ContactsPresent(probe.data) =>
        IF IsDecimalInteger(TimePrefix(probe.data))
        THEN TimeTaken(TimePrefix(probe.data))
        ELSE TimeRefused

\* C14, amended: the part before the first dot is taken as the epoch
\* seconds when it is a decimal integer in the range of int64; when it is
\* a decimal integer out of that range parseData fails as it does for a
\* part that is no decimal integer.
C14_SubmitTimePrefixInt64 ==
    probe.applied /\ ContactsPresent(probe.data) =>
        IF IsDecimalInteger(TimePrefix(probe.data)) /\ FitsInt64(TimePrefix(probe.data))
        THEN TimeTaken(TimePrefix(probe.data))
        ELSE TimeRefused

\* A payload with submit-time "-3.9.1" and two teams has been parsed: its
\* time is 3 seconds before the epoch.
C14_Witness ==
    /\ probe.applied
    /\ ContactsPresent(probe.data)
    /\ Get(probe.data, "submit-time") = "-3.9.1"
    /\ probe.err = Nil
    /\ probe.parsed.SubmitTime = [isZero |-> FALSE, unix |-> -3]
    /\ Len(probe.parsed.Teams) = 2

-----------------------------------------------------------------------------
(* Properties of concurrent calls of Handle, checked under SpecConcurrent *)

\* C12: with two or more calls of Handle in flight on the same handler, no
\* two calls of createSubscriptionID return the same identifier: no lookup
\* of one call falls between the lookup and the insertion of another so
\* that both find the same identifier absent.
C12_NoIdentifierSharedByConcurrentCalls ==
    \A i \in 1..Len(issued) : \A j \in 1..Len(issued) :
        i # j => issued[i] # issued[j]

-----------------------------------------------------------------------------
(* Termination of Handle, checked under SpecFair *)

InStoreForm(p) ==
    goroutine[p].pc \in {"begin", "createID", "storeID", "insertParent",
                         "insertTeams", "commit"}

\* C13: every call of Handle returns in the end, the loop of
\* createSubscriptionID included whatever subscriptionIDs holds, and when
\* Handle has returned the transaction storeForm opened, if any, is
\* committed or rolled back.
C13_EveryCallReturnsWithTransactionClosed ==
    /\ \A p \in Goroutines : InStoreForm(p) ~> Returned(p)
    /\ [](\A p \in Goroutines :
            Returned(p) => goroutine[p].tx.state \in {"none", "committed", "rolledback"})

\* The two parts of C13 apart
C13_TransactionClosedOnReturn ==
    \A p \in Goroutines :
        Returned(p) => goroutine[p].tx.state \in {"none", "committed", "rolledback"}

C13_ReturnsWhileAnIdentifierIsFree ==
    \A p \in Goroutines :
        (InStoreForm(p) /\ subscriptionIDs # IDSpace) ~> Returned(p)

-----------------------------------------------------------------------------
(* Properties of the /hook function, checked under SpecHook *)

\* The request is a POST with the configured secret, a body that decodes as
\* a message, and no X-test header
Admissible(request) ==
    /\ request.method = "POST"
    /\ request.secret = "s3cret"
    /\ request.body.readable
    /\ request.body.json = "object"
    /\ request.test = ""

HandleCalled(frame) == frame.call # 0

\* C16: Handle is called for a request only if the request is a POST with
\* the configured secret, a body that decodes as a message and no X-test
\* header; any other request is answered with the store and subscriptionIDs
\* as they were; and when Handle has returned the response is 200 if it
\* returned nil and 500 if it returned an error.
C16_HookFiltersAndAnswers ==
    [][\A p \in Goroutines :
        /\ (goroutine[p].pc = "idle" /\ goroutine'[p].pc # "idle") =>
            /\ HandleCalled(goroutine'[p]) => Admissible(goroutine'[p].request)
            /\ ~Admissible(goroutine'[p].request) =>
                /\ goroutine'[p].pc = "answered"
                /\ goroutine'[p].status \notin {NoStatus}
                /\ parentRows' = parentRows
                /\ teamRows' = teamRows
                /\ subscriptionIDs' = subscriptionIDs
                /\ beginCalls' = beginCalls
        /\ (goroutine[p].pc = "answered" /\ ~HandleCalled(goroutine[p])) =>
            /\ goroutine'[p].pc \in {"answered", "idle"}
            /\ parentRows' = parentRows
            /\ teamRows' = teamRows
            /\ subscriptionIDs' = subscriptionIDs
        /\ (goroutine[p].pc = "returned" /\ goroutine'[p].pc # "returned") =>
            /\ goroutine'[p].pc = "answered"
            /\ goroutine[p].err = Nil => goroutine'[p].status = 200
            /\ goroutine[p].err # Nil => goroutine'[p].status = 500
        /\ (goroutine'[p].pc = "answered" /\ HandleCalled(goroutine'[p])) =>
            goroutine[p].pc \in {"answered", "returned"}]_vars

\* The second request of a run, admissible, has been answered 500 after its
\* commit failed, on a handler that holds identifiers.
C16_Witness ==
    \E p \in Goroutines :
        /\ goroutine[p].pc = "answered"
        /\ goroutine[p].call = 2
        /\ Admissible(goroutine[p].request)
        /\ goroutine[p].failedStep = "commit"
        /\ goroutine[p].status = 500
        /\ subscriptionIDs # {}

=============================================================================
